---- MODULE Spec2Model ----
(***************************************************************************)
(* mc-server-wrapper, src/config.rs: the Config document, its TOML codec   *)
(* (serde derive + toml), Config::load / Config::store on a path shared    *)
(* with an external writer, Config::merge_in_args, and the file watcher    *)
(* bridge of Config::setup_watcher (watcher thread, forward tasks on the   *)
(* tokio runtime, bounded channel to the consumer).                        *)
(***************************************************************************)
EXTENDS Integers, Sequences, FiniteSets, TLC

VARIABLES
    file,        \* the file at the config path: [exists, data]
    pending,     \* bytes handed by write_all to tokio's blocking pool, not yet in the file
    pc,          \* where the running load/store call is
    op,          \* the call that is running: "none", "load" or "store"
    config,      \* the caller's Config ({} before the first successful load)
    ret,         \* what the last call returned: [op, ok, err]
    fileAtCall,  \* history: the file as it was when the running call started
    pre,         \* history: the Config as it was before the last merge_in_args
    margs,       \* history: the Opt passed to the last merge_in_args
    lineage,     \* history: "default" when config is default() plus merges, else "file"
    handle,      \* the bytes behind the File that load has open
    wcall,       \* setup_watcher: "uninit", or "returned" once it gave out the Receiver
    thread,      \* the watcher thread: "none", "spawned", "created", "loop", "panicked"
    rx,          \* std::sync::mpsc channel from the notify watcher to the thread
    produced,    \* how many debounced events the notify watcher has sent
    tasks,       \* the forward task of each event: its state on the runtime
    waiters,     \* senders queued on the full channel, first come first served
    chan,        \* the tokio mpsc channel's buffer
    consumer,    \* the Receiver: "alive" or "dropped"
    delivered,   \* history: the events the consumer received, in order
    timer,       \* notify's debounce timer for the path: {} or {ms until it fires}
    elapsed,     \* ms since the last raw write event, up to Far
    raw,         \* history: for each raw write event, the ms since the one before
    kinds        \* history: the kind of each event the debouncer sent, in order

fsvars ==
    <<file, pending, pc, op, config, ret, fileAtCall, pre, margs, lineage, handle>>

wvars == <<wcall, thread, rx, produced, tasks, waiters, chan, consumer, delivered>>

dvars == <<timer, elapsed, raw, kinds>>

vars == <<fsvars, wvars, dvars>>

-----------------------------------------------------------------------------
(* The Config document (config.rs 16-34, 139-226).  Option<T> is a set of  *)
(* at most one T.  A log::Level is its discriminant, Error = 1 .. Trace = 5.*)

NonUtf8Path == "/x/\\xFF.jar"

Paths == {"./server.jar", "/x/y.jar", NonUtf8Path}

\* Path::to_str: None for a path that is not valid Unicode
IsUtf8(p) == p # NonUtf8Path

LevelError == 1

LevelTrace == 5

Levels == LevelError .. LevelTrace

\* the variant names of LevelDef, by discriminant
LevelDef == <<"Error", "Warn", "Info", "Debug", "Trace">>

U16Max == 65535

MinecraftDefault ==
    [server_path |-> "./server.jar", memory |-> 1024, jvm_flags |-> {},
     auto_start |-> FALSE]

DiscordDefault ==
    [enable_bridge |-> TRUE, token |-> "", channel_id |-> 0,
     update_status |-> TRUE, admin_id_list |-> <<>>, command_prefix |-> "!mc "]

LoggingDefault == [all |-> 2, self_level |-> 4, discord |-> 3]

ConfigDefault ==
    [minecraft |-> MinecraftDefault, discord |-> {DiscordDefault},
     logging |-> LoggingDefault]

-----------------------------------------------------------------------------
(* The codec: toml::to_string / toml::from_str over the derived Serialize  *)
(* and Deserialize.  A TOML document is its set of tables and its set of   *)
(* key/value entries; a value carries its TOML type.                       *)

TStr(s) == [t |-> "string", s |-> s, n |-> 0, l |-> <<>>]

TInt(n) == [t |-> "integer", s |-> "", n |-> n, l |-> <<>>]

TBool(b) == [t |-> "boolean", s |-> "", n |-> IF b THEN 1 ELSE 0, l |-> <<>>]

TArr(l) == [t |-> "array", s |-> "", n |-> 0, l |-> l]

E(sec, key, val) == [sec |-> sec, key |-> key, val |-> val]

\* zero bytes: a well-formed TOML document with no table
EmptyData == [wellformed |-> TRUE, tables |-> {}, entries |-> {}]

\* bytes that are not well-formed TOML
Malformed == [wellformed |-> FALSE, tables |-> {}, entries |-> {}]

\* a mutant: a level written as its discriminant
EncLevelAsInteger(lv) == TInt(lv)

\* #[serde(with = "LevelDef")]: a derived unit variant is written as its name
EncLevel(lv) == TStr(LevelDef[lv])

\* a mutant: jvm_flags = None written as an empty string
EncMinecraftNoneAsEmpty(m) ==
    {E("minecraft", "server_path", TStr(m.server_path)),
     E("minecraft", "memory", TInt(m.memory)),
     E("minecraft", "auto_start", TBool(m.auto_start)),
     E("minecraft", "jvm_flags",
       TStr(IF m.jvm_flags = {} THEN "" ELSE CHOOSE f \in m.jvm_flags : TRUE))}

\* an Option field that is None is left out of the table
EncMinecraft(m) ==
    {E("minecraft", "server_path", TStr(m.server_path)),
     E("minecraft", "memory", TInt(m.memory)),
     E("minecraft", "auto_start", TBool(m.auto_start))}
    \cup {E("minecraft", "jvm_flags", TStr(f)) : f \in m.jvm_flags}

EncDiscord(d) ==
    {E("discord", "enable_bridge", TBool(d.enable_bridge)),
     E("discord", "token", TStr(d.token)),
     E("discord", "channel_id", TInt(d.channel_id)),
     E("discord", "update_status", TBool(d.update_status)),
     E("discord", "admin_id_list", TArr(d.admin_id_list)),
     E("discord", "command_prefix", TStr(d.command_prefix))}

EncLogging(l) ==
    {E("logging", "all", EncLevel(l.all)),
     E("logging", "self", EncLevel(l.self_level)),
     E("logging", "discord", EncLevel(l.discord))}

\* toml::to_string(self): fails when server_path is not valid Unicode
Encode(c) ==
    IF ~IsUtf8(c.minecraft.server_path)
    THEN [ok |-> FALSE, data |-> EmptyData]
    ELSE [ok |-> TRUE,
          data |-> [wellformed |-> TRUE,
                    tables |-> {"minecraft", "logging"}
                               \cup (IF c.discord = {} THEN {} ELSE {"discord"}),
                    entries |-> EncMinecraft(c.minecraft)
                                \cup UNION {EncDiscord(d) : d \in c.discord}
                                \cup EncLogging(c.logging)]]

Has(data, sec, key) == \E e \in data.entries : e.sec = sec /\ e.key = key

Get(data, sec, key) == (CHOOSE e \in data.entries : e.sec = sec /\ e.key = key).val

HasTyped(data, sec, key, type) ==
    Has(data, sec, key) /\ Get(data, sec, key).t = type

\* a level is read back from the name of a LevelDef variant
LevelOk(data, key) ==
    /\ HasTyped(data, "logging", key, "string")
    /\ \E lv \in Levels : LevelDef[lv] = Get(data, "logging", key).s

DecLevel(data, key) ==
    CHOOSE lv \in Levels : LevelDef[lv] = Get(data, "logging", key).s

MinecraftOk(data) ==
    /\ "minecraft" \in data.tables
    /\ HasTyped(data, "minecraft", "server_path", "string")
    /\ HasTyped(data, "minecraft", "memory", "integer")
    /\ Get(data, "minecraft", "memory").n \in 0 .. U16Max
    /\ Has(data, "minecraft", "jvm_flags")
         => HasTyped(data, "minecraft", "jvm_flags", "string")
    /\ HasTyped(data, "minecraft", "auto_start", "boolean")

DiscordOk(data) ==
    "discord" \in data.tables =>
        /\ HasTyped(data, "discord", "enable_bridge", "boolean")
        /\ HasTyped(data, "discord", "token", "string")
        /\ HasTyped(data, "discord", "channel_id", "integer")
        /\ Get(data, "discord", "channel_id").n >= 0
        /\ HasTyped(data, "discord", "update_status", "boolean")
        /\ HasTyped(data, "discord", "admin_id_list", "array")
        /\ \A i \in DOMAIN Get(data, "discord", "admin_id_list").l :
               Get(data, "discord", "admin_id_list").l[i] >= 0
        /\ HasTyped(data, "discord", "command_prefix", "string")

LoggingOk(data) ==
    /\ "logging" \in data.tables
    /\ LevelOk(data, "all")
    /\ LevelOk(data, "self")
    /\ LevelOk(data, "discord")

DecMinecraft(data) ==
    [server_path |-> Get(data, "minecraft", "server_path").s,
     memory |-> Get(data, "minecraft", "memory").n,
     jvm_flags |-> IF Has(data, "minecraft", "jvm_flags")
                   THEN {Get(data, "minecraft", "jvm_flags").s} ELSE {},
     auto_start |-> Get(data, "minecraft", "auto_start").n = 1]

DecDiscord(data) ==
    [enable_bridge |-> Get(data, "discord", "enable_bridge").n = 1,
     token |-> Get(data, "discord", "token").s,
     channel_id |-> Get(data, "discord", "channel_id").n,
     update_status |-> Get(data, "discord", "update_status").n = 1,
     admin_id_list |-> Get(data, "discord", "admin_id_list").l,
     command_prefix |-> Get(data, "discord", "command_prefix").s]

DecLogging(data) ==
    [all |-> DecLevel(data, "all"),
     self_level |-> DecLevel(data, "self"),
     discord |-> DecLevel(data, "discord")]

\* toml::from_str(&buffer): [ok, val, err], val the Config when ok
Decode(data) ==
    IF ~data.wellformed
    THEN [ok |-> FALSE, val |-> {}, err |-> "Malformed"]
    ELSE IF ~(MinecraftOk(data) /\ DiscordOk(data) /\ LoggingOk(data))
    THEN [ok |-> FALSE, val |-> {}, err |-> "SchemaMismatch"]
    ELSE [ok |-> TRUE,
          val |-> {[minecraft |-> DecMinecraft(data),
                    discord |-> IF "discord" \in data.tables
                                THEN {DecDiscord(data)} ELSE {},
                    logging |-> DecLogging(data)]},
          err |-> ""]

-----------------------------------------------------------------------------
(* The file at the config path and what the external writer puts there.    *)

NoFile == [exists |-> FALSE, data |-> EmptyData]

FileOf(data) == [exists |-> TRUE, data |-> data]

\* a hand-edited config: no [discord] table, JVM flags set
EditedConfig ==
    [minecraft |-> [server_path |-> "/x/y.jar", memory |-> 2048,
                    jvm_flags |-> {"-XX:+UseG1GC"}, auto_start |-> TRUE],
     discord |-> {},
     logging |-> [all |-> 1, self_level |-> 5, discord |-> 3]]

\* the bridge configured and switched off
BridgeOffConfig ==
    [ConfigDefault EXCEPT
        !.discord = {[enable_bridge |-> FALSE, token |-> "tok", channel_id |-> 42,
                      update_status |-> FALSE, admin_id_list |-> <<7, 9>>,
                      command_prefix |-> "!"]}]

\* memory does not fit a u16
BadMemoryData ==
    [Encode(ConfigDefault).data EXCEPT
        !.entries = (@ \ {E("minecraft", "memory", TInt(1024))})
                    \cup {E("minecraft", "memory", TInt(U16Max + 1))}]

\* the log levels written as integers 1..5
IntegerLevelData ==
    [Encode(ConfigDefault).data EXCEPT
        !.entries = (@ \ EncLogging(LoggingDefault))
                    \cup {E("logging", "all", TInt(2)),
                          E("logging", "self", TInt(4)),
                          E("logging", "discord", TInt(3))}]

\* what a hand-edited file may carry as a level: every integer from one below
\* Error to one above Trace, every variant name, and a name that is no variant
WireLevels ==
    {TInt(k) : k \in LevelError - 1 .. LevelTrace + 1}
        \cup {TStr(LevelDef[lv]) : lv \in Levels} \cup {TStr("Verbose")}

\* the default file with logging.all set by hand to w
LevelData(w) ==
    [Encode(ConfigDefault).data EXCEPT
        !.entries = (@ \ {E("logging", "all", EncLevel(LoggingDefault.all))})
                    \cup {E("logging", "all", w)}]

EnvContents ==
    {Encode(ConfigDefault).data, Encode(EditedConfig).data,
     Encode(BridgeOffConfig).data, Malformed,
     BadMemoryData, IntegerLevelData}

-----------------------------------------------------------------------------------------------------------------------------------------------------
(* Return values: anyhow errors carry the context string and the cause.    *)

NoRet == [op |-> "none", ok |-> TRUE, err |-> "", cause |-> ""]

Ok(o) == [op |-> o, ok |-> TRUE, err |-> "", cause |-> ""]

Err(o, e, c) == [op |-> o, ok |-> FALSE, err |-> e, cause |-> c]

\* crate::Opt, as far as merge_in_args reads it
NoArgs == [bridge_to_discord |-> FALSE, server_path |-> {}]

Opt == [bridge_to_discord : BOOLEAN, server_path : {{}} \cup {{p} : p \in Paths}]

-----------------------------------------------------------------------------
(* Config::load and Config::store, one action per await point or system    *)
(* call.  A call starts when no earlier write is still in the blocking     *)
(* pool, so at most one such write is in flight.                           *)

\* the Config that store writes: default() inside load, the caller's otherwise
Self == IF op = "load" THEN ConfigDefault ELSE CHOOSE c \in config : TRUE

Return(r) ==
    /\ pc' = "idle"
    /\ op' = "none"
    /\ ret' = r
    /\ fileAtCall' = NoFile
    /\ handle' = {}

Load_Call ==
    /\ pc = "idle"
    /\ pending = {}
    /\ pc' = "check"
    /\ op' = "load"
    /\ ret' = NoRet
    /\ fileAtCall' = file
    /\ pre' = {}
    /\ margs' = NoArgs
    /\ UNCHANGED <<file, pending, config, lineage, handle>>
    /\ UNCHANGED <<wvars, dvars>>

\* if !path.exists() { .. store .. } else { .. open .. }
Load_Exists ==
    /\ pc = "check"
    /\ pc' = IF ~file.exists THEN "create" ELSE "open"
    /\ UNCHANGED <<file, pending, op, config, ret, fileAtCall, pre, margs, lineage,
                   handle>>
    /\ UNCHANGED <<wvars, dvars>>

Store_Call ==
    /\ pc = "idle"
    /\ pending = {}
    /\ config # {}
    /\ pc' = "create"
    /\ op' = "store"
    /\ ret' = NoRet
    /\ fileAtCall' = file
    /\ pre' = {}
    /\ margs' = NoArgs
    /\ UNCHANGED <<file, pending, config, lineage, handle>>
    /\ UNCHANGED <<wvars, dvars>>

\* File::create(path): creates the file, or truncates the one that is there
Store_Create ==
    /\ pc = "create"
    /\ \/ /\ file' = FileOf(EmptyData)
          /\ pc' = "write"
          /\ UNCHANGED <<op, ret, fileAtCall, handle>>
       \/ /\ Return(Err(op, IF op = "load"
                            THEN "Failed to save default config file"
                            ELSE "Failed to open config file", "io"))
          /\ UNCHANGED file
    /\ UNCHANGED <<pending, config, pre, margs, lineage>>
    /\ UNCHANGED <<wvars, dvars>>

\* file.write_all(toml::to_string(self)?.as_bytes()).await, and no flush: the
\* write is Ready once the bytes are handed to the blocking pool
Store_WriteAll ==
    /\ pc = "write"
    /\ IF Encode(Self).ok
       THEN /\ pending' = {Encode(Self).data}
            /\ Return(Ok(op))
            /\ config' = IF op = "load" THEN {ConfigDefault} ELSE config
            /\ lineage' = IF op = "load" THEN "default" ELSE lineage
       ELSE /\ Return(Err(op, IF op = "load"
                              THEN "Failed to save default config file"
                              ELSE "", "ser"))
            /\ UNCHANGED <<pending, config, lineage>>
    /\ UNCHANGED <<file, pre, margs>>
    /\ UNCHANGED <<wvars, dvars>>

\* the blocking pool runs the write on the file store created; nobody awaits it,
\* so its error is dropped.  The bytes land at offset 0 of that file: over what the
\* external writer put there meanwhile, or nowhere when the path was removed.
Store_BlockingWrite ==
    /\ pending # {}
    /\ pending' = {}
    /\ \E d \in pending :
         \/ /\ file.exists
            /\ file' = FileOf(d)
         \/ /\ file.exists
            /\ file.data # EmptyData
            /\ file' = FileOf(Malformed)
         \/ /\ file.exists
            /\ file.data = EmptyData
            /\ file' \in {FileOf(Malformed), file}
         \/ /\ ~file.exists
            /\ file' = file
    /\ UNCHANGED <<pc, op, config, ret, fileAtCall, pre, margs, lineage, handle>>
    /\ UNCHANGED <<wvars, dvars>>

\* a mutant: load opens the existing file the way store does
Load_OpenTruncating ==
    /\ pc = "open"
    /\ file.exists
    /\ file' = FileOf(EmptyData)
    /\ handle' = {EmptyData}
    /\ pc' = "read"
    /\ UNCHANGED <<pending, op, config, ret, fileAtCall, pre, margs, lineage>>
    /\ UNCHANGED <<wvars, dvars>>

\* File::open(path)
Load_Open ==
    /\ pc = "open"
    /\ \/ /\ file.exists
          /\ handle' = {file.data}
          /\ pc' = "read"
          /\ UNCHANGED <<op, ret, fileAtCall>>
       \/ Return(Err("load", "Failed to open config file", "io"))
    /\ UNCHANGED <<file, pending, config, pre, margs, lineage>>
    /\ UNCHANGED <<wvars, dvars>>

\* what read_to_string finds behind the open File
Buffer == IF file.exists THEN file.data ELSE CHOOSE d \in handle : TRUE

\* file.read_to_string(&mut buffer) and toml::from_str(&buffer)
Load_Read ==
    /\ pc = "read"
    /\ \/ /\ Return(Err("load", "Failed to read config file", "io"))
          /\ UNCHANGED <<config, lineage>>
       \/ /\ Decode(Buffer).ok
          /\ Return(Ok("load"))
          /\ config' = Decode(Buffer).val
          /\ lineage' = "file"
       \/ /\ ~Decode(Buffer).ok
          /\ Return(Err("load", "Failed to parse config file", Decode(Buffer).err))
          /\ UNCHANGED <<config, lineage>>
    /\ UNCHANGED <<file, pending, pre, margs>>
    /\ UNCHANGED <<wvars, dvars>>

-----------------------------------------------------------------------------
(* Config::merge_in_args: [ok, cfg], cfg the Config as the call leaves it. *)

EnableBridge(c) ==
    [c EXCEPT !.discord = {[d EXCEPT !.enable_bridge = TRUE] : d \in c.discord}]

SetServerPath(c, args) ==
    IF args.server_path = {} THEN c
    ELSE [c EXCEPT !.minecraft.server_path = CHOOSE p \in args.server_path : TRUE]

\* a mutant: the path override is applied before the bridge check
merge_in_args_path_first(c, args) ==
    IF args.bridge_to_discord /\ c.discord = {}
    THEN [ok |-> FALSE, cfg |-> SetServerPath(c, args)]
    ELSE [ok |-> TRUE,
          cfg |-> SetServerPath(IF args.bridge_to_discord THEN EnableBridge(c) ELSE c,
                                args)]

\* a mutant: the bridge flag is taken from the arguments whatever they say
merge_in_args_assign_flag(c, args) ==
    IF args.bridge_to_discord /\ c.discord = {}
    THEN [ok |-> FALSE, cfg |-> c]
    ELSE [ok |-> TRUE,
          cfg |-> SetServerPath(
                    [c EXCEPT !.discord =
                        {[d EXCEPT !.enable_bridge = args.bridge_to_discord] :
                            d \in c.discord}], args)]

\* a mutant: a missing discord section is filled in with the default one
merge_in_args_creates_bridge(c, args) ==
    IF args.bridge_to_discord /\ c.discord = {}
    THEN [ok |-> TRUE,
          cfg |-> SetServerPath([c EXCEPT !.discord =
                                    {[DiscordDefault EXCEPT !.enable_bridge = TRUE]}],
                                args)]
    ELSE [ok |-> TRUE,
          cfg |-> SetServerPath(IF args.bridge_to_discord THEN EnableBridge(c) ELSE c,
                                args)]

merge_in_args(c, args) ==
    IF args.bridge_to_discord /\ c.discord = {}
    THEN [ok |-> FALSE, cfg |-> c]
    ELSE [ok |-> TRUE,
          cfg |-> SetServerPath(IF args.bridge_to_discord THEN EnableBridge(c) ELSE c,
                                args)]

Merge_In_Args ==
    /\ pc = "idle"
    /\ config # {}
    /\ \E args \in Opt :
         LET r == merge_in_args(CHOOSE c \in config : TRUE, args) IN
         /\ config' = {r.cfg}
         /\ ret' = IF r.ok THEN Ok("merge")
                   ELSE Err("merge", "Discord bridge cannot be enabled", "")
         /\ pre' = config
         /\ margs' = args
    /\ UNCHANGED <<file, pending, pc, op, fileAtCall, lineage, handle>>
    /\ UNCHANGED <<wvars, dvars>>

-----------------------------------------------------------------------------
(* The external writer: a human or another process editing the file.       *)

Env_Write ==
    /\ \E d \in EnvContents : file' = FileOf(d)
    /\ UNCHANGED <<pending, pc, op, config, ret, fileAtCall, pre, margs, lineage,
                   handle>>
    /\ UNCHANGED <<wvars, dvars>>

Env_Remove ==
    /\ file.exists
    /\ file' = NoFile
    /\ UNCHANGED <<pending, pc, op, config, ret, fileAtCall, pre, margs, lineage,
                   handle>>
    /\ UNCHANGED <<wvars, dvars>>

\* the external writer sets logging.all by hand
Env_WriteLevel ==
    /\ \E w \in WireLevels : file' = FileOf(LevelData(w))
    /\ UNCHANGED <<pending, pc, op, config, ret, fileAtCall, pre, margs, lineage,
                   handle>>
    /\ UNCHANGED <<wvars, dvars>>

-----------------------------------------------------------------------------
(* Config::setup_watcher: the watcher thread, one forward task per event   *)
(* on the tokio runtime, the bounded channel and its consumer.  Events are *)
(* numbered in the order the notify watcher sends them.                    *)

\* mpsc::channel(8)
Capacity == 8

\* events the notify watcher sends in one run
MaxEvents == 9

\* events sent and not yet polled as a forward task
MaxBacklog == 2

Events == 1 .. MaxEvents

InState(st) == {e \in Events : tasks[e] = st}

\* permits of the channel's semaphore not taken by a buffered or granted message
Permits == Capacity - Len(chan) - Cardinality(InState("granted"))

\* the whole of setup_watcher on the caller's side: the channel, the runtime
\* handle, the thread spawned, the Receiver returned
Setup_Watcher ==
    /\ wcall = "uninit"
    /\ wcall' = "returned"
    /\ thread' = "spawned"
    /\ UNCHANGED <<rx, produced, tasks, waiters, chan, consumer, delivered>>
    /\ UNCHANGED <<fsvars, dvars>>

\* notify::watcher(tx, Duration::from_millis(300)).unwrap()
Thread_Watcher ==
    /\ thread = "spawned"
    /\ thread' \in {"created", "panicked"}
    /\ UNCHANGED <<wcall, rx, produced, tasks, waiters, chan, consumer, delivered>>
    /\ UNCHANGED <<fsvars, dvars>>

\* watcher.watch(&config_filepath, RecursiveMode::NonRecursive).unwrap(): fails on
\* a missing path, and may fail on one that is there (permission denied)
Thread_Watch ==
    /\ thread = "created"
    /\ \/ file.exists /\ thread' = "loop"
       \/ thread' = "panicked"
    /\ UNCHANGED <<wcall, rx, produced, tasks, waiters, chan, consumer, delivered>>
    /\ UNCHANGED <<fsvars, dvars>>

\* the notify watcher sends the next debounced event
Notify_Event ==
    /\ thread = "loop"
    /\ produced < MaxEvents
    /\ Len(rx) + Cardinality(InState("spawned")) < MaxBacklog
    /\ produced' = produced + 1
    /\ rx' = Append(rx, produced + 1)
    /\ UNCHANGED <<wcall, thread, tasks, waiters, chan, consumer, delivered>>
    /\ UNCHANGED <<fsvars, dvars>>

\* Duration::from_millis(300): the delay of the debounced watcher
Delay == 300

\* the step of the clock, and the reading that stands for any time past the delay
Tick == Delay \div 3

Far == Delay + Tick

\* raw write events the operating system reports in one run
MaxRaw == 2

\* the debouncer sends an event of this kind to the thread
Tx_Send(kind) ==
    /\ produced' = produced + 1
    /\ rx' = Append(rx, produced + 1)
    /\ kinds' = Append(kinds, kind)

\* a mutant: notify::raw_watcher, every raw event is sent on
Raw_WriteUndebounced ==
    /\ thread = "loop"
    /\ Len(raw) < MaxRaw
    /\ produced < MaxEvents
    /\ raw' = Append(raw, elapsed)
    /\ elapsed' = 0
    /\ Tx_Send("NoticeWrite")
    /\ UNCHANGED <<timer, wcall, thread, tasks, waiters, chan, consumer, delivered>>
    /\ UNCHANGED fsvars

\* the operating system reports a write to the watched path.  The debounced
\* watcher sends NoticeWrite at once if no write is pending for the path, and
\* (re)starts the path's timer
Raw_Write ==
    /\ thread = "loop"
    /\ Len(raw) < MaxRaw
    /\ produced < MaxEvents
    /\ raw' = Append(raw, elapsed)
    /\ elapsed' = 0
    /\ timer' = {Delay}
    /\ IF timer = {} THEN Tx_Send("NoticeWrite") ELSE UNCHANGED <<produced, rx, kinds>>
    /\ UNCHANGED <<wcall, thread, tasks, waiters, chan, consumer, delivered>>
    /\ UNCHANGED fsvars

\* a Tick of time passes; a timer that is due fires before more time passes
Timer_Tick ==
    /\ elapsed < Far
    /\ timer # {0}
    /\ elapsed' = IF elapsed + Tick > Far THEN Far ELSE elapsed + Tick
    /\ timer' = {IF t > Tick THEN t - Tick ELSE 0 : t \in timer}
    /\ UNCHANGED <<raw, kinds>>
    /\ UNCHANGED <<fsvars, wvars>>

\* the timer fires: no raw event came for Delay ms, the debouncer sends Write
Timer_Fire ==
    /\ timer = {0}
    /\ produced < MaxEvents
    /\ timer' = {}
    /\ Tx_Send("Write")
    /\ UNCHANGED <<elapsed, raw>>
    /\ UNCHANGED <<wcall, thread, tasks, waiters, chan, consumer, delivered>>
    /\ UNCHANGED fsvars

\* a mutant: the thread sends into the channel itself and blocks while it is full
Thread_RecvBlockingSend ==
    /\ thread = "loop"
    /\ rx # <<>>
    /\ Permits > 0
    /\ rx' = Tail(rx)
    /\ chan' = Append(chan, Head(rx))
    /\ tasks' = [tasks EXCEPT ![Head(rx)] = "done"]
    /\ UNCHANGED <<wcall, thread, produced, waiters, consumer, delivered>>
    /\ UNCHANGED <<fsvars, dvars>>

\* a mutant: the thread sends into the channel itself and unwraps the result
Thread_RecvUnwrapSend ==
    /\ thread = "loop"
    /\ rx # <<>>
    /\ rx' = Tail(rx)
    /\ IF consumer = "dropped"
       THEN thread' = "panicked" /\ UNCHANGED tasks
       ELSE tasks' = [tasks EXCEPT ![Head(rx)] = "spawned"] /\ UNCHANGED thread
    /\ UNCHANGED <<wcall, produced, waiters, chan, consumer, delivered>>
    /\ UNCHANGED <<fsvars, dvars>>

\* one turn of the loop: rx.recv().unwrap(), notify_sender.clone(), handle.spawn(..)
Thread_Recv ==
    /\ thread = "loop"
    /\ rx # <<>>
    /\ rx' = Tail(rx)
    /\ tasks' = [tasks EXCEPT ![Head(rx)] = "spawned"]
    /\ UNCHANGED <<wcall, thread, produced, waiters, chan, consumer, delivered>>
    /\ UNCHANGED <<fsvars, dvars>>

\* a mutant: an unbounded channel, every send goes through at once
Task_PollUnbounded ==
    /\ \E e \in InState("spawned") :
            /\ IF consumer = "dropped"
               THEN /\ tasks' = [tasks EXCEPT ![e] = "panicked"]
                    /\ UNCHANGED <<waiters, chan>>
               ELSE /\ tasks' = [tasks EXCEPT ![e] = "done"]
                    /\ chan' = Append(chan, e)
                    /\ UNCHANGED waiters
            /\ UNCHANGED <<wcall, thread, rx, produced, consumer, delivered>>
    /\ UNCHANGED <<fsvars, dvars>>

\* a mutant: the task uses try_send and gives up when the channel is full
Task_PollTrySend ==
    /\ \E e \in InState("spawned") :
            /\ IF consumer = "dropped"
               THEN /\ tasks' = [tasks EXCEPT ![e] = "panicked"]
                    /\ UNCHANGED <<waiters, chan>>
               ELSE IF Permits > 0 /\ waiters = <<>>
               THEN /\ tasks' = [tasks EXCEPT ![e] = "done"]
                    /\ chan' = Append(chan, e)
                    /\ UNCHANGED waiters
               ELSE /\ tasks' = [tasks EXCEPT ![e] = "done"]
                    /\ UNCHANGED <<waiters, chan>>
            /\ UNCHANGED <<wcall, thread, rx, produced, consumer, delivered>>
    /\ UNCHANGED <<fsvars, dvars>>

\* the runtime polls a forward task for the first time:
\* sender_clone.send(event).await.unwrap()
Task_Poll ==
    /\ \E e \in InState("spawned") :
            /\ IF consumer = "dropped"
               THEN /\ tasks' = [tasks EXCEPT ![e] = "panicked"]
                    /\ UNCHANGED <<waiters, chan>>
               ELSE IF Permits > 0 /\ waiters = <<>>
               THEN /\ tasks' = [tasks EXCEPT ![e] = "done"]
                    /\ chan' = Append(chan, e)
                    /\ UNCHANGED waiters
               ELSE /\ tasks' = [tasks EXCEPT ![e] = "waiting"]
                    /\ waiters' = Append(waiters, e)
                    /\ UNCHANGED chan
            /\ UNCHANGED <<wcall, thread, rx, produced, consumer, delivered>>
    /\ UNCHANGED <<fsvars, dvars>>

\* a task that was handed a permit is polled again and puts its event in the buffer
Task_Resume ==
    /\ \E e \in InState("granted") :
            /\ tasks' = [tasks EXCEPT ![e] = "done"]
            /\ chan' = IF consumer = "dropped" THEN chan ELSE Append(chan, e)
            /\ UNCHANGED <<wcall, thread, rx, produced, waiters, consumer, delivered>>
    /\ UNCHANGED <<fsvars, dvars>>

\* a task suspended on the full channel is woken by the Receiver's drop: send
\* returns Err(SendError) and unwrap panics in the task
Task_Closed ==
    /\ \E e \in InState("waiting") :
            /\ consumer = "dropped"
            /\ tasks' = [tasks EXCEPT ![e] = "panicked"]
            /\ waiters' = SelectSeq(waiters, LAMBDA w : w # e)
            /\ UNCHANGED <<wcall, thread, rx, produced, chan, consumer, delivered>>
    /\ UNCHANGED <<fsvars, dvars>>

\* the consumer takes the oldest buffered event; the freed permit goes to the
\* first queued sender
Consumer_Recv ==
    /\ consumer = "alive"
    /\ chan # <<>>
    /\ delivered' = Append(delivered, Head(chan))
    /\ chan' = Tail(chan)
    /\ IF waiters # <<>>
       THEN /\ tasks' = [tasks EXCEPT ![Head(waiters)] = "granted"]
            /\ waiters' = Tail(waiters)
       ELSE UNCHANGED <<tasks, waiters>>
    /\ UNCHANGED <<wcall, thread, rx, produced, consumer>>
    /\ UNCHANGED <<fsvars, dvars>>

\* the consumer drops the Receiver: the channel closes, what it buffered is dropped
Consumer_Drop ==
    /\ wcall = "returned"
    /\ consumer = "alive"
    /\ consumer' = "dropped"
    /\ chan' = <<>>
    /\ UNCHANGED <<wcall, thread, rx, produced, tasks, waiters, delivered>>
    /\ UNCHANGED <<fsvars, dvars>>

-----------------------------------------------------------------------------
(* Specifications.                                                         *)

\* no call made yet
FsIdle ==
    /\ pending = {}
    /\ pc = "idle"
    /\ op = "none"
    /\ config = {}
    /\ ret = NoRet
    /\ fileAtCall = NoFile
    /\ pre = {}
    /\ margs = NoArgs
    /\ lineage = "file"
    /\ handle = {}

FsInit == file = NoFile /\ FsIdle

WInit ==
    /\ wcall = "uninit"
    /\ thread = "none"
    /\ rx = <<>>
    /\ produced = 0
    /\ tasks = [e \in Events |-> "none"]
    /\ waiters = <<>>
    /\ chan = <<>>
    /\ consumer = "alive"
    /\ delivered = <<>>

DInit ==
    /\ timer = {}
    /\ elapsed = Far
    /\ raw = <<>>
    /\ kinds = <<>>

Init == FsInit /\ WInit /\ DInit

FsStep ==
    \/ Load_Call
    \/ Load_Exists
    \/ Store_Call
    \/ Store_Create
    \/ Store_WriteAll
    \/ Store_BlockingWrite
    \/ Load_Open
    \/ Load_Read
    \/ Merge_In_Args

\* load, store and merge with the external writer acting at any step
Next ==
    \/ FsStep
    \/ Env_Write
    \/ Env_Remove

Spec == Init /\ [][Next]_vars

\* the external writer acts only between calls, when no write is in flight
Quiescent == pc = "idle" /\ pending = {}

NextSeq ==
    \/ FsStep
    \/ Quiescent /\ Env_Write
    \/ Quiescent /\ Env_Remove

SpecSeq == Init /\ [][NextSeq]_vars

\* load, store and merge on files whose logging.all was set by hand
NextLevels ==
    \/ FsStep
    \/ Quiescent /\ Env_WriteLevel
    \/ Quiescent /\ Env_Remove

SpecLevels == Init /\ [][NextLevels]_vars

\* the watcher bridge on a path that is there, or is not
InitWatch ==
    /\ file \in {NoFile, FileOf(Encode(ConfigDefault).data)}
    /\ FsIdle
    /\ WInit
    /\ DInit

NextWatch ==
    \/ Setup_Watcher
    \/ Thread_Watcher
    \/ Thread_Watch
    \/ Notify_Event
    \/ Thread_Recv
    \/ Task_Poll
    \/ Task_Resume
    \/ Task_Closed
    \/ Consumer_Recv
    \/ Consumer_Drop

SpecWatch == InitWatch /\ [][NextWatch]_vars

\* the scheduling the claims on delivery assume: the operating system runs the
\* thread, the runtime polls a task when one can run, and the consumer receives
\* when an event is buffered
Fairness ==
    /\ WF_vars(Thread_Recv)
    /\ WF_vars(Task_Poll)
    /\ WF_vars(Task_Resume)
    /\ WF_vars(Consumer_Recv)

\* the bridge with a consumer that keeps its Receiver
NextWatchLive ==
    \/ Setup_Watcher
    \/ Thread_Watcher
    \/ Thread_Watch
    \/ Notify_Event
    \/ Thread_Recv
    \/ Task_Poll
    \/ Task_Resume
    \/ Consumer_Recv

SpecWatchFair == InitWatch /\ [][NextWatchLive]_vars /\ Fairness

\* the bridge fed by the debouncer, with a consumer that stays
NextDebounce ==
    \/ Setup_Watcher
    \/ Thread_Watcher
    \/ Thread_Watch
    \/ Raw_Write
    \/ Timer_Tick
    \/ Timer_Fire
    \/ Thread_Recv
    \/ Task_Poll
    \/ Consumer_Recv

SpecDebounce == InitWatch /\ [][NextDebounce]_vars

-----------------------------------------------------------------------------
(* The claims.                                                             *)

DecodedAs(c) == [ok |-> TRUE, val |-> {c}, err |-> ""]

\* C1 (as claimed): a load that found no file and returns Ok returns default(),
\* and in the state it returns in the file exists and decodes to default().
C1_FirstRunMaterialized ==
    [][(op = "load" /\ pc = "write" /\ pc' = "idle" /\ ret'.ok)
        => /\ config' = {ConfigDefault}
           /\ file'.exists
           /\ Decode(file'.data) = DecodedAs(ConfigDefault)]_vars

\* C2: a load called on an existing file, with no other writer during the call,
\* returns (Ok or Err) with the file exactly as it was when the call started.
C2_NoOverwrite ==
    [][(op = "load" /\ fileAtCall.exists /\ pc # "idle" /\ pc' = "idle")
        => file' = fileAtCall]_vars

\* C2: load has returned Ok from an existing valid file, which is still there
C2_Witness ==
    /\ ret.op = "load" /\ ret.ok /\ lineage = "file"
    /\ file.exists /\ Decode(file.data).ok /\ Decode(file.data).val = config

\* C3 (as claimed): load's File::create acts only when no file is at the path at
\* that moment, whatever the external writer did before.
C3_CreateOnlyIfAbsent ==
    [][(op = "load" /\ pc = "create" /\ pc' = "write") => ~file.exists]_vars

\* C4: merge with bridge_to_discord = true on a Config with no discord section
\* returns the error and leaves the whole Config, server_path included, as it was.
C4_MergePrerequisite ==
    (ret.op = "merge" /\ margs.bridge_to_discord /\ \A c \in pre : c.discord = {})
        => ~ret.ok /\ config = pre

\* C4: such a merge, with a server_path override, has returned its error
C4_Witness ==
    /\ ret.op = "merge" /\ ~ret.ok
    /\ margs.bridge_to_discord /\ margs.server_path = {"/x/y.jar"}
    /\ \E c \in pre : c.discord = {} /\ c.minecraft.server_path # "/x/y.jar"

\* C5: merge with bridge_to_discord = false succeeds, sets server_path to the
\* override when there is one and leaves it alone when there is none, and leaves
\* memory, jvm_flags, auto_start, discord and logging as they were.
C5_MergeOverride ==
    (ret.op = "merge" /\ ~margs.bridge_to_discord) =>
        /\ ret.ok
        /\ \A c0 \in pre : \E c \in config :
            /\ config = {c}
            /\ c.minecraft.server_path \in
                   (IF margs.server_path = {} THEN {c0.minecraft.server_path}
                    ELSE margs.server_path)
            /\ c.minecraft.memory = c0.minecraft.memory
            /\ c.minecraft.jvm_flags = c0.minecraft.jvm_flags
            /\ c.minecraft.auto_start = c0.minecraft.auto_start
            /\ c.discord = c0.discord
            /\ c.logging = c0.logging

\* C5: a merge has overridden the path of a Config whose bridge is enabled
C5_Witness ==
    /\ ret.op = "merge" /\ ret.ok
    /\ ~margs.bridge_to_discord /\ margs.server_path = {"/x/y.jar"}
    /\ \E c0 \in pre : /\ c0.minecraft.server_path = "./server.jar"
                       /\ \E d \in c0.discord : d.enable_bridge
    /\ \E c \in config : c.minecraft.server_path = "/x/y.jar"

\* C6 (as claimed): the caller never holds a Receiver of a bridge whose watcher
\* could not be created or attached, and the thread does not panic.
C6_FailFast == ~(wcall = "returned" /\ thread = "panicked")

\* C7 (as claimed): no forward task panics, also after the consumer dropped the
\* Receiver.
C7_DroppedConsumerSwallowed == \A e \in Events : tasks[e] # "panicked"

\* C8 (as claimed): the consumer receives the events in the order the watcher
\* thread received them.
C8_OrderPreserved ==
    \A i, j \in DOMAIN delivered : i < j => delivered[i] < delivered[j]

\* C9: whenever the watcher thread is in its loop and an event is there, its turn
\* of the loop can run, and leaves the thread in the loop: also with the channel
\* full and a consumer that never receives.
C9_ThreadNeverBlocks ==
    (thread = "loop" /\ rx # <<>>) => ENABLED (Thread_Recv /\ thread' = "loop")

\* C9: the channel is full, nothing was ever received, senders are suspended, and
\* the thread has taken every event and waits for the next
C9_Witness ==
    /\ thread = "loop" /\ rx = <<>>
    /\ Len(chan) = Capacity /\ delivered = <<>> /\ consumer = "alive"
    /\ InState("waiting") # {} /\ InState("spawned") = {}

\* C10 (as claimed): every Config reachable from default() by merges encodes, and
\* decodes to itself.
C10_RoundTripAll ==
    lineage = "default" =>
        \A c \in config : Encode(c).ok /\ Decode(Encode(c).data) = DecodedAs(c)

\* C10 (amended): a Config the caller holds, from default() or from a file, merged
\* or not, encodes and decodes to itself when its server_path is valid Unicode;
\* when it is not, it does not encode.
C10_RoundTrip ==
    \A c \in config :
        IF c.minecraft.server_path # NonUtf8Path
        THEN Encode(c).ok /\ Decode(Encode(c).data) = DecodedAs(c)
        ELSE ~Encode(c).ok

\* C10: default() with a merged path and jvm_flags = None
C10_Witness ==
    /\ lineage = "default" /\ ret.op = "merge" /\ ret.ok
    /\ \E c \in config : /\ c.minecraft.server_path = "/x/y.jar"
                         /\ c.minecraft.jvm_flags = {}
                         /\ Decode(Encode(c).data).val = {c}

\* the name the claims give each level
LevelName(lv) ==
    CASE lv = 1 -> "Error" [] lv = 2 -> "Warn" [] lv = 3 -> "Info"
      [] lv = 4 -> "Debug" [] lv = 5 -> "Trace"

C12_LoadFailurePropagation ==
    [][/\ (op = "load" /\ pc # "idle" /\ pc' = "idle" /\ ret'.ok) =>
            IF fileAtCall.exists
            THEN /\ Decode(fileAtCall.data).ok
                 /\ config' = Decode(fileAtCall.data).val
            ELSE config' = {ConfigDefault}
       /\ (op = "load" /\ pc # "idle" /\ pc' = "idle" /\ ~ret'.ok) =>
            /\ config' = config
            /\ fileAtCall.exists => file' = fileAtCall
       /\ (ret.op = "load" /\ ret.ok /\ pending # {} /\ pending' = {}) =>
            file' = FileOf(Encode(ConfigDefault).data)]_vars

\* the events of a kind, and the raw writes by the time since the one before
\* (the first raw write counts as long after)
OfKind(k) == {i \in DOMAIN kinds : kinds[i] = k}

RawApart == {i \in DOMAIN raw : raw[i] > Delay}

RawOnEdge == {i \in DOMAIN raw : raw[i] = Delay}

Received == {delivered[i] : i \in DOMAIN delivered}

\* C14: with a consumer that keeps receiving and fair scheduling, every event the
\* thread has taken from the watcher is in the end received by the consumer; no
\* event is received twice; and while an event is on its way, the thread, a
\* forward task or the consumer can take a step.
C14_NoEventLoss ==
    /\ \A e \in Events : (tasks[e] = "spawned") ~> (e \in Received)
    /\ [](\A i, j \in DOMAIN delivered : i # j => delivered[i] # delivered[j])
    /\ []((\E e \in Events : tasks[e] # "none" /\ e \notin Received)
            => ENABLED (Thread_Recv \/ Task_Poll \/ Task_Resume \/ Consumer_Recv))

\* C14: a sender that found the channel full has just been handed the permit the
\* consumer freed
C14_Witness ==
    /\ consumer = "alive" /\ delivered # <<>>
    /\ InState("granted") # {} /\ Len(chan) = Capacity - 1

\* C15: once the thread is in its loop it stays there, whatever the consumer and
\* the forward tasks do: no step takes it out of the loop.
C15_NoTerminalState == [][thread = "loop" => thread' = "loop"]_vars

\* C15: the consumer dropped the Receiver, four forward tasks have panicked (at
\* least one of them spawned after the drop), and the thread is in its loop
C15_Witness ==
    /\ thread = "loop" /\ consumer = "dropped"
    /\ Cardinality(InState("panicked")) >= 4

\* C16 (as claimed): in the state a store returns Ok in, the file holds exactly the
\* encoding of the Config stored, whether the file was there before or not.
C16_StoreReplacesContent ==
    [][(op = "store" /\ pc = "write" /\ pc' = "idle" /\ ret'.ok)
        => /\ file'.exists
           /\ file'.data = Encode(Self).data
           /\ Decode(file'.data).val = config']_vars

\* C17: after a merge the discord section is there iff it was there before; with
\* bridge_to_discord = true and the section there, enable_bridge is true and the
\* token, channel id, update_status, admin list and prefix are as before; with
\* bridge_to_discord = false the section is as before, enable_bridge included.
C17_BridgeSectionKept ==
    ret.op = "merge" =>
        \A c0 \in pre : \E c \in config :
            /\ config = {c}
            /\ (c.discord = {}) <=> (c0.discord = {})
            /\ margs.bridge_to_discord =>
                 \A d0 \in c0.discord : \E d \in c.discord :
                     /\ c.discord = {d}
                     /\ d.enable_bridge
                     /\ d.token = d0.token
                     /\ d.channel_id = d0.channel_id
                     /\ d.update_status = d0.update_status
                     /\ d.admin_id_list = d0.admin_id_list
                     /\ d.command_prefix = d0.command_prefix
            /\ ~margs.bridge_to_discord => c.discord = c0.discord

\* C17: a merge has switched on a bridge that was configured and off
C17_Witness ==
    /\ ret.op = "merge" /\ ret.ok /\ margs.bridge_to_discord
    /\ \E c0 \in pre : \E d0 \in c0.discord : ~d0.enable_bridge /\ d0.token = "tok"
    /\ \E c \in config : \E d \in c.discord : d.enable_bridge /\ d.token = "tok"

\* C18: the channel never buffers more than 8 events, permits handed to resumed
\* senders included; while the consumer holds the Receiver, every event the watcher
\* sent is with the thread, held by a forward task, buffered or received, and a
\* forward task is suspended only while the channel's 8 places are taken.
C18_BoundedChannel ==
    /\ Len(chan) + Cardinality(InState("granted")) <= 8
    /\ consumer = "alive" =>
        /\ \A e \in 1 .. produced :
              \/ \E i \in DOMAIN rx : rx[i] = e
              \/ tasks[e] \in {"spawned", "waiting", "granted"}
              \/ \E i \in DOMAIN chan : chan[i] = e
              \/ \E i \in DOMAIN delivered : delivered[i] = e
        /\ InState("waiting") # {} => Len(chan) + Cardinality(InState("granted")) = 8

\* C18: eight events are buffered, no permit is free, and the ninth event is held
\* by a suspended forward task
C18_Witness ==
    /\ consumer = "alive" /\ Len(chan) = 8 /\ Permits = 0
    /\ \E e \in InState("waiting") : e = 9 /\ waiters = <<e>>
====
